---- MODULE Spec2Model ----
(***************************************************************************)
(* Trello user provisioning (src/script.py, the generated                  *)
(* trello_provisioning.py): main() parses the command line, constructs     *)
(* TrelloProvisioning and calls run_provisioning once.  The program is      *)
(* single threaded; pc is the position of that one thread.  Every call into *)
(* the browser (a driver or element method) is an input of the step that   *)
(* makes it: it returns or raises, chosen with \E.                         *)
(*                                                                         *)
(* Exceptions are the class names of the source; only subclasses of        *)
(* Exception are modelled (no KeyboardInterrupt / SystemExit injection).    *)
(*                                                                         *)
(* RetrySpec runs _retry_operation alone on an arbitrary operation;         *)
(* StandaloneSpec is the standalone script src/unnamed/part_000, a program  *)
(* of its own with its own retry helper, verifier and cleanup.  FairSpec   *)
(* is Spec with weak fairness on every step but the wait for the operator. *)
(***************************************************************************)
EXTENDS Integers, Sequences, FiniteSets, TLC

VARIABLES
    pc,            \* position of the single thread
    args,          \* argparse namespace of main()
    environ,       \* os.environ, the two credential variables
    credentials,   \* self.credentials
    selfDriver,    \* self.driver: "None" or "Chrome"
    browser,       \* the browser session itself: "absent", "open", "quit"
    quitCalls,     \* number of driver.quit() calls
    browserUsed,   \* some browser call (creation included) was made
    usedAfterQuit, \* some browser call was made after driver.quit()
    stages,        \* stage methods invoked by run_provisioning, with argument
    loginLog,      \* steps performed by login(), in order
    success,       \* local `success` of run_provisioning
    exc,           \* exception class that reached run_provisioning's handlers
    returned,      \* value returned by run_provisioning ("none" before)
    cleanupRan,    \* number of cleanup() calls
    quitRaised,    \* driver.quit() raised
    verifyReturned,\* the value verify_user_added returned, << >> before
    exitCode,      \* process exit status, -1 while the process runs
    uncaught,      \* exception class that left main() uncaught
    search,        \* the ordered-fallback search in progress
    frame,         \* locals of the stage method in progress
    rt,            \* locals of _retry_operation
    verify,        \* locals of verify_user_added
    operation,     \* the operation given to _retry_operation when it is run alone:
                   \* what its i-th invocation does
    automation     \* the name `automation` of the standalone script
                   \* (src/unnamed/part_000): unbound, or <<the object's fields>>

cfgVars  == <<args, environ, credentials, operation, automation>>
drvVars  == <<selfDriver, browser, quitCalls, browserUsed, usedAfterQuit>>
runVars  == <<success, exc, returned, cleanupRan, quitRaised, verifyReturned>>
procVars == <<exitCode, uncaught>>
vars == <<pc, args, environ, credentials, selfDriver, browser, quitCalls,
          browserUsed, usedAfterQuit, stages, loginLog, success, exc, returned,
          cleanupRan, quitRaised, verifyReturned, exitCode, uncaught, search,
          frame, rt, verify, operation, automation>>

----------------------------------------------------------------------------
(* Values *)

None == "None"

TrelloProvisioningError  == "TrelloProvisioningError"
CaptchaDetectedException == "CaptchaDetectedException"
NoSuchElementException   == "NoSuchElementException"
TimeoutException         == "TimeoutException"
ElementClickInterceptedException == "ElementClickInterceptedException"
StaleElementReferenceException   == "StaleElementReferenceException"
WebDriverException       == "WebDriverException"

\* What a browser call can raise (selenium.common.exceptions imported by the script).
BrowserErrors == {NoSuchElementException, TimeoutException,
                  ElementClickInterceptedException,
                  StaleElementReferenceException, WebDriverException}

\* What an element method (click, clear, send_keys) can raise: the element was
\* found, so not NoSuchElementException.
ElementErrors == BrowserErrors \ {NoSuchElementException}

\* argparse defaults and the values of the epilog's examples
DefaultEmail     == "newuser@example.com"
DefaultWorkspace == "Project X"
Emails     == {DefaultEmail, "user@company.com"}
Workspaces == {DefaultWorkspace, "My Team"}

\* An environment variable: unset, set to the empty string, or set.
Unset == "<unset>"
EnvValues == {Unset, "", "secret"}

\* A name no assignment has bound yet; a bound name is <<value>>.
Unbound == << >>

max_retries      == 3
retry_delay_base == 1

----------------------------------------------------------------------------
(* Selector lists, in the order of the source *)

captcha_selectors ==
    << "iframe[src*='recaptcha']", ".g-recaptcha", "#recaptcha", ".captcha",
       "iframe[title*='captcha']", "iframe[title*='challenge']" >>

workspace_selectors(workspace_name) ==
    << "//a[contains(text(), '" \o workspace_name \o "')]",
       "//div[contains(text(), '" \o workspace_name \o "')]",
       "//span[contains(text(), '" \o workspace_name \o "')]",
       "//*[@data-testid='workspace-name'][contains(text(), '" \o workspace_name \o "')]",
       "//*[contains(@class, 'workspace')]//*[contains(text(), '" \o workspace_name \o "')]" >>

invite_selectors ==
    << "//button[contains(text(), 'Invite')]",
       "//button[contains(text(), 'Members')]",
       "//a[contains(text(), 'Invite')]",
       "//*[@data-testid='invite-button']",
       "//*[@data-testid='members-button']",
       "//button[contains(@class, 'invite')]",
       "//button[contains(@title, 'Invite')]",
       "//*[contains(@class, 'workspace-header')]//*[contains(text(), 'Invite')]" >>

email_selectors ==
    << "//input[@placeholder*='email']",
       "//input[@id*='email']",
       "//input[@name*='email']",
       "//input[@type='email']",
       "//*[@data-testid='invite-email-input']",
       "//textarea[contains(@placeholder, 'email')]" >>

submit_selectors ==
    << "//button[contains(text(), 'Send')]",
       "//button[contains(text(), 'Invite')]",
       "//button[@type='submit']",
       "//*[@data-testid='send-invite-button']",
       "//input[@type='submit']" >>

user_verification_selectors(email) ==
    << "//*[contains(text(), '" \o email \o "')]",
       "//span[contains(@title, '" \o email \o "')]",
       "//*[@data-testid='member'][contains(., '" \o email \o "')]",
       "//*[contains(@class, 'member')][contains(., '" \o email \o "')]" >>

success_selectors ==
    << "//*[contains(text(), 'invited')]",
       "//*[contains(text(), 'sent')]",
       "//*[contains(text(), 'added')]",
       "//*[contains(@class, 'success')]" >>

Range(s) == { s[i] : i \in DOMAIN s }

\* The selector list a search walks.
SelectorsOf(name) ==
    CASE name = "workspace" -> workspace_selectors(args.workspace)
      [] name = "invite"    -> invite_selectors
      [] name = "email"     -> email_selectors
      [] name = "submit"    -> submit_selectors
      [] OTHER              -> << >>

\* No search in progress.  gets counts the loads of the listing URL.
NoSearch == [name |-> None, pass |-> 0, dom |-> {}, idx |-> 0,
             queried |-> << >>, acted |-> None, found |-> FALSE, gets |-> 0]

\* The element find_element returns for a selector: the first node the XPath
\* matches.  The same XPath on the same page is the same node.
ElementOf(selector) == selector

----------------------------------------------------------------------------
(* Helpers shared by the steps *)

NoCredentials == [username |-> Unset, password |-> Unset]
\* submitted is how the invitation was submitted and on which element, << >>
\* while it was not.
NoFrame == [invite_button |-> None, email_input |-> None, typed |-> None,
            submitted |-> << >>]
\* raised is the class of the error a retry helper raised, raised_from the
\* exception chained to that error (its __cause__ or __context__).
NoRetry == [site |-> None, attempt |-> 0, calls |-> 0, sleeps |-> << >>,
            last_exception |-> None, result |-> None, raised |-> None,
            raised_from |-> None]
\* error is the exception that reached the handler of line 566, skipped
\* tells that an inner handler (lines 543, 560) dropped one.
NoVerify == [dom |-> {}, idx |-> 0, queried |-> << >>, error |-> None,
             sleeps |-> << >>, skipped |-> FALSE]

\* A call into the browser: remembered as made, and as made after quit if so.
Touch ==
    /\ browserUsed' = TRUE
    /\ usedAfterQuit' = (usedAfterQuit \/ browser = "quit")
    /\ UNCHANGED <<selfDriver, browser, quitCalls>>

\* run_provisioning without `finally`: the handlers fall through to `return`
RaiseToRunNoFinally(e) ==
    /\ exc' = e
    /\ pc' = "return"
    /\ UNCHANGED <<success, returned, cleanupRan, quitRaised, verifyReturned>>

\* An exception leaves a stage method and reaches the handlers of
\* run_provisioning (lines 601-606), which log it and fall into `finally`.
RaiseToRun(e) ==
    /\ exc' = e
    /\ pc' = "cleanup"
    /\ UNCHANGED <<success, returned, cleanupRan, quitRaised, verifyReturned>>

\* lines 589-590 in the other order
NextStageSwapped(stage) ==
    CASE stage = "_setup_driver"         -> "login"
      [] stage = "login"                 -> "add_new_user"
      [] stage = "add_new_user"          -> "navigate_to_workspace"
      [] stage = "navigate_to_workspace" -> "verify_user_added"
      [] OTHER                           -> "after_verify"

\* lines 585-591: the stage run_provisioning calls after `stage` returned.
NextStage(stage) ==
    CASE stage = "_setup_driver"         -> "login"
      [] stage = "login"                 -> "navigate_to_workspace"
      [] stage = "navigate_to_workspace" -> "add_new_user"
      [] stage = "add_new_user"          -> "verify_user_added"
      [] OTHER                           -> "after_verify"

\* lines 585-591: the call of a stage method, with the argument passed.
StageCall(stage) ==
    [name |-> stage,
     arg  |-> CASE stage = "navigate_to_workspace" -> args.workspace
                [] stage \in {"add_new_user", "verify_user_added"} -> args.email
                [] OTHER -> None]

----------------------------------------------------------------------------
(* main() and the constructor *)

Init ==
    /\ pc = "main"
    /\ args = [headless |-> TRUE, email |-> DefaultEmail,
               workspace |-> DefaultWorkspace]
    /\ environ \in [TRELLO_USERNAME : EnvValues, TRELLO_PASSWORD : EnvValues]
    /\ credentials = NoCredentials
    /\ selfDriver = None
    /\ browser = "absent"
    /\ quitCalls = 0
    /\ browserUsed = FALSE
    /\ usedAfterQuit = FALSE
    /\ stages = << >>
    /\ loginLog = << >>
    /\ success = FALSE
    /\ exc = None
    /\ returned = << >>
    /\ cleanupRan = 0
    /\ quitRaised = FALSE
    /\ verifyReturned = << >>
    /\ exitCode = -1
    /\ uncaught = None
    /\ search = NoSearch
    /\ frame = NoFrame
    /\ rt = NoRetry
    /\ verify = NoVerify
    /\ operation = << >>
    /\ automation = Unbound

\* lines 661: parser.parse_args().  argparse exits 0 after -h/--help and 2 on
\* a usage error (an unknown flag, a non-integer --timeout); otherwise the
\* namespace holds the flags given or their defaults.
parse_args ==
    /\ pc = "main"
    /\ \/ /\ exitCode' = 0
          /\ pc' = "exited"
          /\ UNCHANGED args
       \/ /\ exitCode' = 2
          /\ pc' = "exited"
          /\ UNCHANGED args
       \/ /\ \E no_headless \in BOOLEAN, email \in Emails, workspace \in Workspaces :
                args' = [headless |-> ~no_headless, email |-> email,
                         workspace |-> workspace]
          /\ pc' = "construct"
          /\ UNCHANGED exitCode
    /\ UNCHANGED <<environ, credentials, operation, automation, drvVars, stages, loginLog,
                   runVars, uncaught, search, frame, rt, verify>>

\* load_dotenv() (line 81, override left False): a variable of the .env file
\* is set in os.environ unless os.environ already holds it.
load_dotenv(env, file) ==
    [k \in DOMAIN env |-> IF env[k] = Unset THEN file[k] ELSE env[k]]

\* `not value` of line 113: os.getenv gives None for an unset variable.
Falsy(value) == value \in {Unset, ""}

\* the test of line 113 with `and` for `or`
CredentialsMissingBoth(username, password) == Falsy(username) /\ Falsy(password)

\* line 113: not username or not password
CredentialsMissing(username, password) == Falsy(username) \/ Falsy(password)

\* lines 62-84 and 100-119: __init__ with _load_credentials.  An error raised
\* here is not caught by main(): the interpreter prints it and exits 1.
__init__ ==
    /\ pc = "construct"
    /\ \E file \in [TRELLO_USERNAME : EnvValues, TRELLO_PASSWORD : EnvValues] :
          LET env == load_dotenv(environ, file)
              username == env.TRELLO_USERNAME
              password == env.TRELLO_PASSWORD
          IN  /\ environ' = env
              /\ IF CredentialsMissing(username, password)
                 THEN /\ uncaught' = TrelloProvisioningError
                      /\ exitCode' = 1
                      /\ pc' = "exited"
                      /\ UNCHANGED credentials
                 ELSE /\ credentials' = [username |-> username, password |-> password]
                      /\ pc' = "run_provisioning"
                      /\ UNCHANGED <<uncaught, exitCode>>
    /\ UNCHANGED <<args, operation, automation, drvVars, stages, loginLog, runVars, search,
                   frame, rt, verify>>

\* line 581
run_provisioning ==
    /\ pc = "run_provisioning"
    /\ success' = FALSE
    /\ pc' = "_setup_driver"
    /\ UNCHANGED <<cfgVars, drvVars, stages, loginLog, exc, returned, cleanupRan,
                   quitRaised, verifyReturned, procVars, search, frame, rt, verify>>

\* lines 121-162.  ChromeDriverManager().install() or webdriver.Chrome() may
\* raise before self.driver is assigned; set_page_load_timeout,
\* implicitly_wait, WebDriverWait or maximize_window may raise after it.
_setup_driver ==
    /\ pc = "_setup_driver"
    /\ stages' = Append(stages, StageCall("_setup_driver"))
    /\ \/ \* install() raises: no browser call was made
          /\ UNCHANGED drvVars
          /\ RaiseToRun(TrelloProvisioningError)
       \/ \* webdriver.Chrome() raises
          /\ browserUsed' = TRUE
          /\ UNCHANGED <<selfDriver, browser, quitCalls, usedAfterQuit>>
          /\ RaiseToRun(TrelloProvisioningError)
       \/ \* the driver is created, configuring it raises
          /\ selfDriver' = "Chrome"
          /\ browser' = "open"
          /\ browserUsed' = TRUE
          /\ UNCHANGED <<quitCalls, usedAfterQuit>>
          /\ RaiseToRun(TrelloProvisioningError)
       \/ /\ selfDriver' = "Chrome"
          /\ browser' = "open"
          /\ browserUsed' = TRUE
          /\ UNCHANGED <<quitCalls, usedAfterQuit>>
          /\ pc' = NextStage("_setup_driver")
          /\ UNCHANGED runVars
    /\ UNCHANGED <<cfgVars, loginLog, procVars, search, frame, rt, verify>>

----------------------------------------------------------------------------
(* _retry_operation and _safe_click *)

Return(v)  == [kind |-> "return", val |-> v]
Raise(e)   == [kind |-> "raise", val |-> e]

RECURSIVE Pow2(_)
Pow2(n) == IF n = 0 THEN 1 ELSE 2 * Pow2(n - 1)

\* line 187 with a linear delay
DelayLinear(attempt) == retry_delay_base * 2 * attempt

\* line 187: delay = self.retry_delay_base * (2 ** attempt)
Delay(attempt) == retry_delay_base * Pow2(attempt)

\* The loop body with `except` narrowed to the transient kinds of the
\* standalone script: any other exception leaves the helper at once.
RetryIterationTransientOnly(outcome) ==
    /\ pc = "_retry_operation"
    /\ rt.attempt < max_retries
    /\ IF outcome.kind = "return"
       THEN /\ rt' = [rt EXCEPT !.calls = @ + 1, !.result = outcome.val]
            /\ pc' = "_retry_returned"
       ELSE IF outcome.val \in {TimeoutException, StaleElementReferenceException,
                                ElementClickInterceptedException}
       THEN /\ rt' = [rt EXCEPT !.calls = @ + 1,
                                !.last_exception = outcome.val,
                                !.sleeps = Append(@, retry_delay_base * Pow2(rt.attempt)),
                                !.attempt = @ + 1]
            /\ pc' = "_retry_operation"
       ELSE /\ rt' = [rt EXCEPT !.calls = @ + 1, !.raised = outcome.val]
            /\ pc' = "_retry_raised"

\* lines 181-189, one pass of the loop body: the operation is invoked; its
\* value is returned, or its exception (any Exception) is kept in
\* last_exception and the delay is slept.
RetryIteration(outcome) ==
    /\ pc = "_retry_operation"
    /\ rt.attempt < max_retries
    /\ IF outcome.kind = "return"
       THEN /\ rt' = [rt EXCEPT !.calls = @ + 1, !.result = outcome.val]
            /\ pc' = "_retry_returned"
       ELSE /\ rt' = [rt EXCEPT !.calls = @ + 1,
                                !.last_exception = outcome.val,
                                !.sleeps = Append(@, Delay(rt.attempt)),
                                !.attempt = @ + 1]
            /\ pc' = "_retry_operation"

\* lines 191-193: the loop is over, TrelloProvisioningError is raised, outside
\* the handler of line 185 and without `from`: no exception is chained to it
RetryExhausted ==
    /\ pc = "_retry_operation"
    /\ rt.attempt >= max_retries
    /\ rt' = [rt EXCEPT !.raised = TrelloProvisioningError, !.raised_from = None]
    /\ pc' = "_retry_raised"

\* lines 218-224: element.click(); on ElementClickInterceptedException the
\* JavaScript click.  Each argument is "ok" or the exception the call raises.
click_operation(click, script) ==
    IF click = "ok" THEN Return(None)
    ELSE IF click = ElementClickInterceptedException
         THEN IF script = "ok" THEN Return(None) ELSE Raise(script)
         ELSE Raise(click)

\* What element.click() and driver.execute_script can raise.
ClickErrors  == {ElementClickInterceptedException, StaleElementReferenceException,
                 WebDriverException}
ScriptErrors == {StaleElementReferenceException, WebDriverException}

\* line 226: _safe_click starts _retry_operation(click_operation)
StartClick(site) ==
    /\ rt' = [NoRetry EXCEPT !.site = site]
    /\ pc' = "_retry_operation"

\* The searches with the `break` after the click left out: the loop goes on.
AfterClickNoBreak(site) ==
    CASE site = "login_continue" -> "login_password"
      [] site = "login_submit"   -> "login_wait"
      [] site = "workspace"      -> "workspace_search"
      [] site = "invite"         -> "invite_search"
      [] site = "submit"         -> "submit_search"
      [] OTHER                   -> "exited"

\* Where the caller goes on once _safe_click returned (in the searches: the
\* found flag is set and `break` leaves the loop, lines 358-361, 376-379,
\* 429-432, 486-489).
AfterClick(site) ==
    CASE site = "login_continue" -> "login_password"
      [] site = "login_submit"   -> "login_wait"
      [] site = "workspace"      -> "workspace_clicked"
      [] site = "invite"         -> "invite_clicked"
      [] site = "submit"         -> "submit_clicked"
      [] OTHER                   -> "exited"

\* line 226 inside the loop: one invocation of click_operation
_safe_click_attempt ==
    /\ rt.site # "test"
    /\ \E click \in {"ok"} \cup ClickErrors, script \in {"ok"} \cup ScriptErrors :
          RetryIteration(click_operation(click, script))
    /\ Touch
    /\ UNCHANGED <<cfgVars, stages, loginLog, runVars, procVars, search, frame, verify>>

_safe_click_exhausted ==
    /\ rt.site # "test"
    /\ RetryExhausted
    /\ UNCHANGED <<cfgVars, drvVars, stages, loginLog, runVars, procVars, search,
                   frame, verify>>

\* line 226: _retry_operation returned, _safe_click drops the value
_safe_click_return ==
    /\ pc = "_retry_returned"
    /\ rt.site # "test"
    /\ pc' = AfterClick(rt.site)
    /\ rt' = NoRetry
    /\ UNCHANGED <<cfgVars, drvVars, stages, loginLog, runVars, procVars, search,
                   frame, verify>>

----------------------------------------------------------------------------
(* login *)

\* lines 324-329: what login() raises for an exception raised in its body
LoginRaisesWrapped(e) == TrelloProvisioningError

LoginRaises(e) ==
    IF e = CaptchaDetectedException THEN CaptchaDetectedException
    ELSE TrelloProvisioningError

\* lines 244-253: results[i] is what find_elements gives for the i-th selector:
\* "found" (a non-empty list), "empty", or "raise"
_check_for_captcha(results) ==
    \E i \in DOMAIN results :
        /\ results[i] = "found"
        /\ \A j \in 1..(i - 1) : results[j] \in {"empty", "raise"}

\* lines 272-275
login ==
    /\ pc = "login"
    /\ stages' = Append(stages, StageCall("login"))
    /\ loginLog' = Append(loginLog, "get")
    /\ Touch
    /\ \/ /\ pc' = "login_captcha1"
          /\ UNCHANGED runVars
       \/ RaiseToRun(LoginRaises(WebDriverException))
    /\ UNCHANGED <<cfgVars, procVars, search, frame, rt, verify>>

\* line 259 left out: a detected challenge raises in either mode
HandleCaptchaNoPrompt(detected, headless) ==
    IF ~detected THEN "continue" ELSE "raise"

\* lines 257-263: what _handle_captcha_if_present does
HandleCaptcha(detected, headless) ==
    IF ~detected THEN "continue"
    ELSE IF ~headless THEN "input" ELSE "raise"

\* lines 278 and 301 with 255-263
_handle_captcha_if_present ==
    /\ pc \in {"login_captcha1", "login_captcha2"}
    /\ Touch
    /\ \E results \in [DOMAIN captcha_selectors -> {"found", "empty", "raise"}] :
          LET detected == _check_for_captcha(results)
              todo == HandleCaptcha(detected, args.headless)
          IN  /\ loginLog' = Append(loginLog, IF detected THEN "captcha_detected"
                                                          ELSE "captcha_clear")
              /\ CASE todo = "continue" ->
                     /\ pc' = IF pc = "login_captcha1" THEN "login_username"
                                                       ELSE "login_submit"
                     /\ UNCHANGED runVars
                   [] todo = "input" ->
                     /\ pc' = IF pc = "login_captcha1" THEN "captcha_input1"
                                                       ELSE "captcha_input2"
                     /\ UNCHANGED runVars
                   [] OTHER -> RaiseToRun(LoginRaises(CaptchaDetectedException))
    /\ UNCHANGED <<cfgVars, stages, procVars, search, frame, rt, verify>>

\* line 261: input() returns when the operator presses Enter, or raises
\* EOFError when standard input is closed
captcha_input ==
    /\ pc \in {"captcha_input1", "captcha_input2"}
    /\ loginLog' = Append(loginLog, "input")
    /\ \/ /\ pc' = IF pc = "captcha_input1" THEN "login_username" ELSE "login_submit"
          /\ UNCHANGED runVars
       \/ RaiseToRun(LoginRaises("EOFError"))
    /\ UNCHANGED <<cfgVars, drvVars, stages, procVars, search, frame, rt, verify>>

\* lines 281-284 (field "username") and 295-298 (field "password"):
\* _wait_and_find_element, clear, send_keys
login_type ==
    /\ pc \in {"login_username", "login_password"}
    /\ Touch
    /\ \/ \* the wait times out, or clear() raises: nothing is typed
          /\ \E e \in BrowserErrors : RaiseToRun(LoginRaises(e))
          /\ UNCHANGED loginLog
       \/ \* send_keys raises
          /\ loginLog' = Append(loginLog, IF pc = "login_username" THEN "username"
                                                                     ELSE "password")
          /\ \E e \in ElementErrors : RaiseToRun(LoginRaises(e))
       \/ /\ loginLog' = Append(loginLog, IF pc = "login_username" THEN "username"
                                                                     ELSE "password")
          /\ pc' = IF pc = "login_username" THEN "login_continue" ELSE "login_captcha2"
          /\ UNCHANGED runVars
    /\ UNCHANGED <<cfgVars, stages, procVars, search, frame, rt, verify>>

\* lines 287-292: the continue button, if present
login_continue ==
    /\ pc = "login_continue"
    /\ Touch
    /\ \/ \* NoSuchElementException: no continue button
          /\ pc' = "login_password"
          /\ UNCHANGED <<loginLog, rt, runVars>>
       \/ \* find_element raises something else
          /\ RaiseToRun(LoginRaises(WebDriverException))
          /\ UNCHANGED <<loginLog, rt>>
       \/ /\ loginLog' = Append(loginLog, "continue")
          /\ StartClick("login_continue")
          /\ UNCHANGED runVars
    /\ UNCHANGED <<cfgVars, stages, procVars, search, frame, verify>>

\* lines 304-305
login_submit ==
    /\ pc = "login_submit"
    /\ Touch
    /\ \/ /\ \E e \in BrowserErrors : RaiseToRun(LoginRaises(e))
          /\ UNCHANGED <<loginLog, rt>>
       \/ /\ loginLog' = Append(loginLog, "submit")
          /\ StartClick("login_submit")
          /\ UNCHANGED runVars
    /\ UNCHANGED <<cfgVars, stages, procVars, search, frame, verify>>

\* lines 308-315: wait for the success signal
login_wait ==
    /\ pc = "login_wait"
    /\ Touch
    /\ loginLog' = Append(loginLog, "wait")
    /\ \E signal \in {"seen", "timeout", "error"} :
          CASE signal = "seen" ->
                 /\ pc' = NextStage("login")
                 /\ UNCHANGED runVars
            [] signal = "timeout" ->
                 /\ pc' = "login_timeout"
                 /\ UNCHANGED runVars
            [] OTHER -> RaiseToRun(LoginRaises(WebDriverException))
    /\ UNCHANGED <<cfgVars, stages, procVars, search, frame, rt, verify>>

\* line 317 with the test inverted
LoginTimedOutInverted(on_login_url) == IF on_login_url THEN "return" ELSE "raise"

\* lines 317-322: if "login" in self.driver.current_url: raise, else go on
LoginTimedOut(on_login_url) == IF on_login_url THEN "raise" ELSE "return"

\* lines 315-322: the wait timed out, the current URL is read (the read may
\* raise) and tested
login_timeout ==
    /\ pc = "login_timeout"
    /\ Touch
    /\ \/ \E on_login_url \in BOOLEAN :
             /\ loginLog' = Append(loginLog, IF on_login_url THEN "url_login"
                                                             ELSE "url_other")
             /\ IF LoginTimedOut(on_login_url) = "raise"
                THEN RaiseToRun(LoginRaises(TrelloProvisioningError))
                ELSE /\ pc' = NextStage("login")
                     /\ UNCHANGED runVars
       \/ /\ RaiseToRun(LoginRaises(WebDriverException))
          /\ UNCHANGED loginLog
    /\ UNCHANGED <<cfgVars, stages, procVars, search, frame, rt, verify>>

----------------------------------------------------------------------------
(* The ordered-fallback searches of navigate_to_workspace and add_new_user *)

\* A search starts on a page where the selectors of `dom` match.
NewSearch(name, pass, dom) ==
    [name |-> name, pass |-> pass, dom |-> dom, idx |-> 0,
     queried |-> << >>, acted |-> None, found |-> FALSE, gets |-> 0]

\* driver.find_element(By.XPATH, selector) on the page
find_element(selector, dom) ==
    IF selector \in dom THEN Return(ElementOf(selector))
    ELSE Raise(NoSuchElementException)

\* `for selector in ...`: the selector the loop takes next, none at the end
HasNext(s) == s.idx < Len(SelectorsOf(s.name))
NextSelector(s) == SelectorsOf(s.name)[s.idx + 1]

\* The loop as a `while` that forgets to step: the same selector is queried
\* again and again.
QueriedNotAdvancing(s) == [s EXCEPT !.queried = Append(@, NextSelector(s))]

\* The loop took the next selector and queried it.
Queried(s) == [s EXCEPT !.idx = @ + 1, !.queried = Append(@, NextSelector(s))]

\* lines 342-353
navigate_to_workspace ==
    /\ pc = "navigate_to_workspace"
    /\ stages' = Append(stages, StageCall("navigate_to_workspace"))
    /\ \E dom \in SUBSET Range(workspace_selectors(args.workspace)) :
          search' = NewSearch("workspace", 1, dom)
    /\ frame' = NoFrame
    /\ loginLog' = << >>
    /\ pc' = "workspace_search"
    /\ UNCHANGED <<cfgVars, drvVars, runVars, procVars, rt, verify>>

\* lines 355-363 (first pass) and 373-381 (second pass): one selector
workspace_query ==
    /\ pc = "workspace_search"
    /\ HasNext(search)
    /\ Touch
    /\ \/ LET r == find_element(NextSelector(search), search.dom)
          IN  IF r.kind = "return"
              THEN /\ search' = [Queried(search) EXCEPT !.acted = r.val]
                   /\ StartClick("workspace")
                   /\ UNCHANGED runVars
              ELSE /\ search' = Queried(search)
                   /\ pc' = "workspace_search"
                   /\ UNCHANGED <<rt, runVars>>
       \/ \* find_element raises something else: line 394 in the first pass,
          \* line 382 in the second
          /\ search' = Queried(search)
          /\ UNCHANGED rt
          /\ IF search.pass = 1
             THEN RaiseToRun(TrelloProvisioningError)
             ELSE pc' = "workspace_check" /\ UNCHANGED runVars
    /\ UNCHANGED <<cfgVars, stages, loginLog, procVars, frame, verify>>

\* line 365 taken after either pass: the listing URL is loaded whenever
\* the workspace was not found
AfterWorkspacePassAgain(pass, found) ==
    IF ~found THEN "workspace_fallback" ELSE "workspace_check"

\* lines 365 and 385: after the first pass `if not workspace_found` leads to
\* the listing URL, after the second to the test of line 385
AfterWorkspacePass(pass, found) ==
    IF pass = 1 /\ ~found THEN "workspace_fallback" ELSE "workspace_check"

\* the loop ran out of selectors: line 365 after the first pass, line 385
\* after the second
workspace_exhausted ==
    /\ pc = "workspace_search"
    /\ ~HasNext(search)
    /\ pc' = AfterWorkspacePass(search.pass, search.found)
    /\ UNCHANGED <<cfgVars, drvVars, stages, loginLog, runVars, procVars, search,
                   frame, rt, verify>>

\* lines 358-361 and 376-379 after the click: workspace_found = True
workspace_clicked ==
    /\ pc = "workspace_clicked"
    /\ search' = [search EXCEPT !.found = TRUE]
    /\ pc' = "workspace_check"
    /\ UNCHANGED <<cfgVars, drvVars, stages, loginLog, runVars, procVars, frame,
                   rt, verify>>

\* lines 367-371: the boards view is loaded and the list is walked again
workspace_fallback ==
    /\ pc = "workspace_fallback"
    /\ Touch
    /\ \/ /\ \E dom \in SUBSET Range(workspace_selectors(args.workspace)) :
                search' = [NewSearch("workspace", 2, dom)
                              EXCEPT !.gets = search.gets + 1]
          /\ pc' = "workspace_search"
       \/ \* driver.get raises: line 382
          /\ search' = [search EXCEPT !.pass = 2, !.gets = @ + 1]
          /\ pc' = "workspace_check"
    /\ UNCHANGED <<cfgVars, stages, loginLog, runVars, procVars, frame, rt, verify>>

\* lines 385-392: not found is an error; found, the method returns
workspace_check ==
    /\ pc = "workspace_check"
    /\ IF search.found
       THEN /\ pc' = NextStage("navigate_to_workspace")
            /\ UNCHANGED runVars
       ELSE RaiseToRun(TrelloProvisioningError)
    /\ search' = IF search.found THEN NoSearch ELSE search
    /\ UNCHANGED <<cfgVars, drvVars, stages, loginLog, procVars, frame, rt, verify>>

\* lines 410-424
add_new_user ==
    /\ pc = "add_new_user"
    /\ stages' = Append(stages, StageCall("add_new_user"))
    /\ \E dom \in SUBSET Range(invite_selectors) :
          search' = NewSearch("invite", 1, dom)
    /\ frame' = NoFrame
    /\ pc' = "invite_search"
    /\ UNCHANGED <<cfgVars, drvVars, loginLog, runVars, procVars, rt, verify>>

\* lines 426-434: one selector of the invite trigger
invite_query ==
    /\ pc = "invite_search"
    /\ HasNext(search)
    /\ Touch
    /\ \/ LET r == find_element(NextSelector(search), search.dom)
          IN  IF r.kind = "return"
              THEN /\ search' = [Queried(search) EXCEPT !.acted = r.val]
                   /\ frame' = [frame EXCEPT !.invite_button = r.val]
                   /\ StartClick("invite")
                   /\ UNCHANGED runVars
              ELSE /\ search' = Queried(search)
                   /\ pc' = "invite_search"
                   /\ UNCHANGED <<rt, runVars, frame>>
       \/ /\ search' = Queried(search)
          /\ RaiseToRun(TrelloProvisioningError)
          /\ UNCHANGED <<rt, frame>>
    /\ UNCHANGED <<cfgVars, stages, loginLog, procVars, verify>>

\* lines 467-470 left out: after an email list without a match the submit
\* search begins
AfterNoMatchEmailUnchecked(name) ==
    CASE name = "invite" -> "raise"
      [] name = "email"  -> "email_typed"
      [] OTHER           -> "submit_enter"

\* What follows a list that ran out without a match: the error of lines
\* 436-439 (invite trigger) and 467-470 (email input), the Enter key of
\* lines 494-500 (submit control)
AfterNoMatch(name) ==
    CASE name = "invite" -> "raise"
      [] name = "email"  -> "raise"
      [] OTHER           -> "submit_enter"

\* lines 436-439: the list ran out
invite_exhausted ==
    /\ pc = "invite_search"
    /\ ~HasNext(search)
    /\ IF AfterNoMatch("invite") = "raise"
       THEN RaiseToRun(TrelloProvisioningError)
       ELSE pc' = AfterNoMatch("invite") /\ UNCHANGED runVars
    /\ UNCHANGED <<cfgVars, drvVars, stages, loginLog, procVars, search, frame,
                   rt, verify>>

\* lines 430-454: invite_button_found = True, break, sleep, the email list
invite_clicked ==
    /\ pc = "invite_clicked"
    /\ \E dom \in SUBSET Range(email_selectors) :
          search' = NewSearch("email", 1, dom)
    /\ pc' = "email_search"
    /\ UNCHANGED <<cfgVars, drvVars, stages, loginLog, runVars, procVars, frame,
                   rt, verify>>

\* lines 456-465: one selector of the email input; on a match clear() and
\* send_keys(email), then email_input_found = True and break
email_query ==
    /\ pc = "email_search"
    /\ HasNext(search)
    /\ Touch
    /\ \/ LET r == find_element(NextSelector(search), search.dom)
          IN  IF r.kind = "return"
              THEN \/ /\ search' = [Queried(search) EXCEPT !.acted = r.val,
                                                           !.found = TRUE]
                      /\ frame' = [frame EXCEPT !.email_input = r.val,
                                                !.typed = args.email]
                      /\ pc' = "email_typed"
                      /\ UNCHANGED runVars
                   \/ \* clear() or send_keys raises
                      /\ search' = [Queried(search) EXCEPT !.acted = r.val]
                      /\ frame' = [frame EXCEPT !.email_input = r.val]
                      /\ RaiseToRun(TrelloProvisioningError)
              ELSE /\ search' = Queried(search)
                   /\ pc' = "email_search"
                   /\ UNCHANGED <<runVars, frame>>
       \/ /\ search' = Queried(search)
          /\ RaiseToRun(TrelloProvisioningError)
          /\ UNCHANGED frame
    /\ UNCHANGED <<cfgVars, stages, loginLog, procVars, rt, verify>>

\* lines 467-470: the list ran out
email_exhausted ==
    /\ pc = "email_search"
    /\ ~HasNext(search)
    /\ IF AfterNoMatch("email") = "raise"
       THEN RaiseToRun(TrelloProvisioningError)
       ELSE pc' = AfterNoMatch("email") /\ UNCHANGED runVars
    /\ UNCHANGED <<cfgVars, drvVars, stages, loginLog, procVars, search, frame,
                   rt, verify>>

\* lines 472-481: the submit list
email_typed ==
    /\ pc = "email_typed"
    /\ \E dom \in SUBSET Range(submit_selectors) :
          search' = NewSearch("submit", 1, dom)
    /\ pc' = "submit_search"
    /\ UNCHANGED <<cfgVars, drvVars, stages, loginLog, runVars, procVars, frame,
                   rt, verify>>

\* lines 483-491: one selector of the submit control
submit_query ==
    /\ pc = "submit_search"
    /\ HasNext(search)
    /\ Touch
    /\ \/ LET r == find_element(NextSelector(search), search.dom)
          IN  IF r.kind = "return"
              THEN /\ search' = [Queried(search) EXCEPT !.acted = r.val]
                   /\ StartClick("submit")
                   /\ UNCHANGED runVars
              ELSE /\ search' = Queried(search)
                   /\ pc' = "submit_search"
                   /\ UNCHANGED <<rt, runVars>>
       \/ /\ search' = Queried(search)
          /\ RaiseToRun(TrelloProvisioningError)
          /\ UNCHANGED rt
    /\ UNCHANGED <<cfgVars, stages, loginLog, procVars, frame, verify>>

\* line 494: the list ran out
submit_exhausted ==
    /\ pc = "submit_search"
    /\ ~HasNext(search)
    /\ pc' = IF search.found THEN "submit_clicked" ELSE AfterNoMatch("submit")
    /\ UNCHANGED <<cfgVars, drvVars, stages, loginLog, runVars, procVars, search,
                   frame, rt, verify>>

\* lines 502-505 left out: the method goes on whether or not the key was sent
AfterEnterUnchecked(sent) == "add_new_user_return"

\* lines 497-505: submit_button_found is set when send_keys returned; when it
\* raised, the bare except drops the error and line 502 raises
AfterEnter(sent) == IF sent THEN "add_new_user_return" ELSE "raise"

\* lines 494-505: the Enter key on the email input; any failure of it is
\* dropped and the submit error raised
submit_enter ==
    /\ pc = "submit_enter"
    /\ Touch
    /\ \E sent \in BOOLEAN :
          /\ frame' = IF sent
                      THEN [frame EXCEPT !.submitted = <<"ENTER", frame.email_input>>]
                      ELSE frame
          /\ IF AfterEnter(sent) = "raise"
             THEN RaiseToRun(TrelloProvisioningError)
             ELSE pc' = AfterEnter(sent) /\ UNCHANGED runVars
    /\ UNCHANGED <<cfgVars, stages, loginLog, procVars, search, rt, verify>>

\* lines 486-489 after the click: submit_button_found = True, break
submit_clicked ==
    /\ pc = "submit_clicked"
    /\ search' = [search EXCEPT !.found = TRUE]
    /\ frame' = [frame EXCEPT !.submitted = <<"click", search.acted>>]
    /\ pc' = "add_new_user_return"
    /\ UNCHANGED <<cfgVars, drvVars, stages, loginLog, runVars, procVars, rt, verify>>

\* lines 507-509
add_new_user_return ==
    /\ pc = "add_new_user_return"
    /\ pc' = NextStage("add_new_user")
    /\ search' = NoSearch
    /\ frame' = NoFrame
    /\ UNCHANGED <<cfgVars, drvVars, stages, loginLog, runVars, procVars, rt, verify>>

\* The handler of line 362 taken as `except Exception`: a failed click in the
\* first workspace pass is skipped like a selector that matched nothing.
ClickFailureHandlerSkipping(site, pass) ==
    IF site = "workspace"
    THEN (IF pass = 2 THEN "workspace_check" ELSE "workspace_search")
    ELSE "raise"

\* The handler that takes the TrelloProvisioningError of a failed click.  The
\* loops catch NoSuchElementException only (lines 362, 380, 433, 490), so the
\* error leaves the loop: in the second workspace pass line 382 swallows it
\* and line 385 follows, everywhere else the method's outer handler raises.
ClickFailureHandler(site, pass) ==
    IF site = "workspace" /\ pass = 2 THEN "workspace_check" ELSE "raise"

\* _retry_operation raised out of _safe_click: in login to line 326, in the
\* first workspace pass to line 394, in the second to line 382, in
\* add_new_user to line 511
_safe_click_raise ==
    /\ pc = "_retry_raised"
    /\ rt.site # "test"
    /\ rt' = NoRetry
    /\ LET handler == ClickFailureHandler(rt.site, search.pass)
       IN  IF handler = "raise"
           THEN RaiseToRun(IF rt.site \in {"login_continue", "login_submit"}
                           THEN LoginRaises(rt.raised)
                           ELSE TrelloProvisioningError)
           ELSE pc' = handler /\ UNCHANGED runVars
    /\ UNCHANGED <<cfgVars, drvVars, stages, loginLog, procVars, search, frame, verify>>

----------------------------------------------------------------------------
(* verify_user_added *)

\* lines 526-535
verify_user_added ==
    /\ pc = "verify_user_added"
    /\ stages' = Append(stages, StageCall("verify_user_added"))
    /\ \E dom \in SUBSET (Range(user_verification_selectors(args.email))
                          \cup Range(success_selectors)) :
          verify' = [NoVerify EXCEPT !.dom = dom]
    /\ pc' = "verify_user"
    /\ UNCHANGED <<cfgVars, drvVars, loginLog, runVars, procVars, search, frame, rt>>

\* The handler of lines 566-568 left out: the exception leaves the method
VerifyOuterHandlerMissing(e) == Raise(e)

\* lines 566-568: except Exception: log, return False
VerifyOuterHandler(e) == Return(FALSE)

\* `return value` of verify_user_added and line 591: success = ...
VerifyReturns(value) ==
    /\ success' = value
    /\ verifyReturned' = <<value>>
    /\ pc' = NextStage("verify_user_added")
    /\ UNCHANGED <<exc, returned, cleanupRan, quitRaised>>

\* driver.find_elements(By.XPATH, selector) on the page: the list of matches
find_elements(selector, dom) ==
    IF selector \in dom THEN <<ElementOf(selector)>> ELSE << >>

\* lines 540 and 557 as `if not user_elements:`
TruthyInverted(elements) == elements = << >>

\* lines 540 and 557: `if user_elements:`, true of a non-empty list
Truthy(elements) == elements # << >>

\* lines 537-544: one selector of the member list
verify_user_query ==
    /\ pc = "verify_user"
    /\ verify.idx < Len(user_verification_selectors(args.email))
    /\ Touch
    /\ LET selector == user_verification_selectors(args.email)[verify.idx + 1]
           asked == [verify EXCEPT !.idx = @ + 1, !.queried = Append(@, selector)]
       IN  \/ \* find_elements returns the matches
              /\ verify' = asked
              /\ IF Truthy(find_elements(selector, verify.dom))
                 THEN VerifyReturns(TRUE)
                 ELSE pc' = "verify_user" /\ UNCHANGED runVars
           \/ \* NoSuchElementException: continue
              /\ verify' = [asked EXCEPT !.skipped = TRUE]
              /\ pc' = "verify_user"
              /\ UNCHANGED runVars
           \/ \* another exception reaches line 566
              \E e \in BrowserErrors \ {NoSuchElementException} :
                 LET r == VerifyOuterHandler(e)
                 IN  /\ verify' = [asked EXCEPT !.error = e]
                     /\ IF r.kind = "return" THEN VerifyReturns(r.val)
                                             ELSE RaiseToRun(r.val)
    /\ UNCHANGED <<cfgVars, stages, loginLog, procVars, search, frame, rt>>

\* lines 554-561: one selector of the success messages; the bare except
\* drops any exception, that of success_elements[0].text included
verify_success_query ==
    /\ pc = "verify_user"
    /\ verify.idx >= Len(user_verification_selectors(args.email))
    /\ verify.idx < Len(user_verification_selectors(args.email)) + Len(success_selectors)
    /\ Touch
    /\ LET selector == success_selectors[verify.idx + 1
                          - Len(user_verification_selectors(args.email))]
           asked == [verify EXCEPT !.idx = @ + 1, !.queried = Append(@, selector)]
       IN  \/ /\ verify' = asked
              /\ IF Truthy(find_elements(selector, verify.dom))
                 THEN VerifyReturns(TRUE)
                 ELSE pc' = "verify_user" /\ UNCHANGED runVars
           \/ \* .text of the match raises: continue
              /\ Truthy(find_elements(selector, verify.dom))
              /\ verify' = [asked EXCEPT !.skipped = TRUE]
              /\ pc' = "verify_user"
              /\ UNCHANGED runVars
           \/ \* find_elements raises: continue
              /\ verify' = [asked EXCEPT !.skipped = TRUE]
              /\ pc' = "verify_user"
              /\ UNCHANGED runVars
    /\ UNCHANGED <<cfgVars, stages, loginLog, procVars, search, frame, rt>>

\* lines 563-564: nothing was found
verify_not_found ==
    /\ pc = "verify_user"
    /\ verify.idx >= Len(user_verification_selectors(args.email)) + Len(success_selectors)
    /\ VerifyReturns(FALSE)
    /\ UNCHANGED <<cfgVars, drvVars, stages, loginLog, procVars, search, frame,
                   rt, verify>>

----------------------------------------------------------------------------
(* The end of run_provisioning, cleanup and the exit of main() *)

\* lines 593-599: the result is logged, then `finally`
after_verify ==
    /\ pc = "after_verify"
    /\ pc' = "cleanup"
    /\ UNCHANGED <<cfgVars, drvVars, stages, loginLog, runVars, procVars, search,
                   frame, rt, verify>>

\* cleanup() without its try/except: the error of quit() leaves it
CleanupHandlerMissing(e) == Raise(e)

\* lines 618-619: except Exception: log a warning
CleanupHandler(e) == Return(None)

\* line 614: if self.driver
ShouldQuit(driver) == driver # None

\* lines 607-608 and 612-619: cleanup(); driver.quit() may raise.  The stage
\* methods are over: their locals are gone.
cleanup ==
    /\ pc = "cleanup"
    /\ cleanupRan' = cleanupRan + 1
    /\ UNCHANGED <<success, exc, returned, verifyReturned>>
    /\ IF ShouldQuit(selfDriver)
       THEN /\ quitCalls' = quitCalls + 1
            /\ browser' = "quit"
            /\ browserUsed' = TRUE
            /\ UNCHANGED <<selfDriver, usedAfterQuit>>
            /\ \/ /\ pc' = "return"
                  /\ UNCHANGED <<procVars, quitRaised>>
               \/ LET r == CleanupHandler(WebDriverException)
                  IN  /\ quitRaised' = TRUE
                      /\ IF r.kind = "return"
                         THEN pc' = "return" /\ UNCHANGED procVars
                         ELSE /\ uncaught' = r.val
                              /\ exitCode' = 1
                              /\ pc' = "exited"
       ELSE /\ pc' = "return"
            /\ UNCHANGED <<drvVars, procVars, quitRaised>>
    /\ search' = NoSearch
    /\ frame' = NoFrame
    /\ rt' = NoRetry
    /\ verify' = NoVerify
    /\ UNCHANGED <<cfgVars, stages, loginLog>>

\* line 610: return success
return_success ==
    /\ pc = "return"
    /\ returned' = <<success>>
    /\ pc' = "sys_exit"
    /\ UNCHANGED <<cfgVars, drvVars, stages, loginLog, success, exc, cleanupRan,
                   quitRaised, verifyReturned, procVars, search, frame, rt, verify>>

\* line 675 with the two codes swapped
ExitStatusSwapped(result) == IF result THEN 1 ELSE 0

\* line 675: 0 if success else 1
ExitStatus(result) == IF result THEN 0 ELSE 1

\* line 675: sys.exit(...)
sys_exit ==
    /\ pc = "sys_exit"
    /\ exitCode' = ExitStatus(returned[1])
    /\ pc' = "exited"
    /\ UNCHANGED <<cfgVars, drvVars, stages, loginLog, runVars, uncaught, search,
                   frame, rt, verify>>

----------------------------------------------------------------------------
(* The program *)

Next ==
    \/ parse_args
    \/ __init__
    \/ run_provisioning
    \/ _setup_driver
    \/ login
    \/ _handle_captcha_if_present
    \/ captcha_input
    \/ login_type
    \/ login_continue
    \/ login_submit
    \/ login_wait
    \/ login_timeout
    \/ _safe_click_attempt
    \/ _safe_click_exhausted
    \/ _safe_click_return
    \/ _safe_click_raise
    \/ navigate_to_workspace
    \/ workspace_query
    \/ workspace_exhausted
    \/ workspace_clicked
    \/ workspace_fallback
    \/ workspace_check
    \/ add_new_user
    \/ invite_query
    \/ invite_exhausted
    \/ invite_clicked
    \/ email_query
    \/ email_exhausted
    \/ email_typed
    \/ submit_query
    \/ submit_exhausted
    \/ submit_enter
    \/ submit_clicked
    \/ add_new_user_return
    \/ verify_user_added
    \/ verify_user_query
    \/ verify_success_query
    \/ verify_not_found
    \/ after_verify
    \/ cleanup
    \/ return_success
    \/ sys_exit

Spec == Init /\ [][Next]_vars

\* A step of the program that does not wait for the operator: everything but
\* the input() of line 261, which returns only when somebody presses Enter.
ProgramStep == Next /\ pc \notin {"captcha_input1", "captcha_input2"}

\* The interpreter runs the program on: a statement that can be executed is
\* executed, each browser call made returning or raising.
FairSpec == Spec /\ WF_vars(ProgramStep)

----------------------------------------------------------------------------
(* _retry_operation run alone, on an arbitrary operation *)

\* What one invocation of an operation can do: return a value, or raise a
\* browser error or an error of another kind.
NumResults == 2
Results  == {"result " \o ToString(i) : i \in 1..NumResults}
Failures == BrowserErrors \cup {"ValueError"}
Outcomes == {Return(v) : v \in Results} \cup {Raise(e) : e \in Failures}

\* The exception kinds the retry helper of the standalone script catches.
TransientKinds == {TimeoutException, StaleElementReferenceException,
                   ElementClickInterceptedException}

InitRetry ==
    /\ pc = "_retry_operation"
    /\ rt = [NoRetry EXCEPT !.site = "test"]
    /\ operation \in [1..max_retries -> Outcomes]
    /\ automation = Unbound
    /\ args = [headless |-> TRUE, email |-> DefaultEmail,
               workspace |-> DefaultWorkspace]
    /\ environ = [TRELLO_USERNAME |-> "secret", TRELLO_PASSWORD |-> "secret"]
    /\ credentials = [username |-> "secret", password |-> "secret"]
    /\ selfDriver = None
    /\ browser = "absent"
    /\ quitCalls = 0
    /\ browserUsed = FALSE
    /\ usedAfterQuit = FALSE
    /\ stages = << >>
    /\ loginLog = << >>
    /\ success = FALSE
    /\ exc = None
    /\ returned = << >>
    /\ cleanupRan = 0
    /\ quitRaised = FALSE
    /\ verifyReturned = << >>
    /\ exitCode = -1
    /\ uncaught = None
    /\ search = NoSearch
    /\ frame = NoFrame
    /\ verify = NoVerify

\* lines 181-189: one pass of the loop on the given operation
retry_attempt ==
    /\ rt.site = "test"
    /\ RetryIteration(operation[rt.calls + 1])
    /\ UNCHANGED <<cfgVars, drvVars, stages, loginLog, runVars, procVars, search,
                   frame, verify>>

\* lines 191-193
retry_exhausted ==
    /\ rt.site = "test"
    /\ RetryExhausted
    /\ UNCHANGED <<cfgVars, drvVars, stages, loginLog, runVars, procVars, search,
                   frame, verify>>

NextRetry == retry_attempt \/ retry_exhausted

RetrySpec == InitRetry /\ [][NextRetry]_vars


----------------------------------------------------------------------------
(* The standalone script, src/unnamed/part_000 *)

max_attempts == 3
delay        == 2
verify_polls == 3
verify_delay == 2

new_user_email == "newuser@example.com"

invite_button_css == "[data-testid='invite-to-workspace-button']"
email_input_css   == "[data-testid='invite-to-workspace-email-input']"
submit_button_css == "[data-testid='invite-to-workspace-submit']"

\* line 263, for new_user_email in lower case
member_xpath ==
    "//div[contains(@class, 'member-list')]//span[contains(translate(text(), "
    \o "'ABCDEFGHIJKLMNOPQRSTUVWXYZ', 'abcdefghijklmnopqrstuvwxyz'), '"
    \o new_user_email \o "')]"

\* lines 59-60: the object as __init__ leaves it
NewAutomation == [driver |-> None, wait |-> None]

\* What wait.until(EC.element_to_be_clickable(...)) can raise.
WaitErrors == {TimeoutException, StaleElementReferenceException, WebDriverException}

InitStandalone ==
    /\ pc = "part_000"
    /\ args = [headless |-> TRUE, email |-> DefaultEmail,
               workspace |-> DefaultWorkspace]
    /\ environ \in [TRELL_USERNAME : EnvValues, TRELL_PASSWORD : EnvValues]
    /\ credentials = NoCredentials
    /\ operation = << >>
    /\ automation = Unbound
    /\ selfDriver = None
    /\ browser = "absent"
    /\ quitCalls = 0
    /\ browserUsed = FALSE
    /\ usedAfterQuit = FALSE
    /\ stages = << >>
    /\ loginLog = << >>
    /\ success = FALSE
    /\ exc = None
    /\ returned = << >>
    /\ cleanupRan = 0
    /\ quitRaised = FALSE
    /\ verifyReturned = << >>
    /\ exitCode = -1
    /\ uncaught = None
    /\ search = NoSearch
    /\ frame = NoFrame
    /\ rt = NoRetry
    /\ verify = NoVerify

\* The variables of script.py's object and run that the standalone script
\* does not have.
scriptVars == <<args, credentials, operation, selfDriver, loginLog, success,
                returned, search>>

\* lines 36-38: without a .env file the module raises FileNotFoundError;
\* load_dotenv() otherwise
part_000 ==
    /\ pc = "part_000"
    /\ \/ /\ uncaught' = "FileNotFoundError"
          /\ exitCode' = 1
          /\ pc' = "exited"
          /\ UNCHANGED environ
       \/ /\ \E file \in [TRELL_USERNAME : EnvValues, TRELL_PASSWORD : EnvValues] :
                environ' = load_dotenv(environ, file)
          /\ pc' = "__main__"
          /\ UNCHANGED procVars
    /\ UNCHANGED <<scriptVars, automation, browser, quitCalls, browserUsed,
                   usedAfterQuit, stages, exc, cleanupRan, quitRaised,
                   verifyReturned, frame, rt, verify>>

\* lines 293 and 51-77: automation = TrelloUserProvisioning(headless=True).
\* When __init__ raises, the name automation is not bound.
TrelloUserProvisioning ==
    /\ pc = "__main__"
    /\ IF Falsy(environ.TRELL_USERNAME) \/ Falsy(environ.TRELL_PASSWORD)
       THEN /\ exc' = "ValueError"
            /\ pc' = "finally"
            /\ UNCHANGED automation
       ELSE /\ automation' = <<NewAutomation>>
            /\ pc' = "setup_browser"
            /\ UNCHANGED exc
    /\ UNCHANGED <<scriptVars, environ, browser, quitCalls, browserUsed,
                   usedAfterQuit, stages, cleanupRan, quitRaised, verifyReturned,
                   procVars, frame, rt, verify>>

\* A method of the main block returned: the next one is called when it
\* returned True, `finally` is entered when it returned False (lines 294-298).
NextCall(method, result) ==
    IF ~result THEN "finally"
    ELSE CASE method = "setup_browser"   -> "login_to_trello"
           [] method = "login_to_trello" -> "navigate_to_workspace_settings"
           [] method = "navigate_to_workspace_settings" -> "standalone_add_new_user"
           [] method = "add_new_user"    -> "verify_user_addition"
           [] OTHER                      -> "finally"

\* lines 79-116: every exception is caught and False returned; the driver
\* may exist by then (execute_script or WebDriverWait raised after line 104)
setup_browser ==
    /\ pc = "setup_browser"
    /\ stages' = Append(stages, [name |-> "setup_browser", arg |-> None])
    /\ \/ \* install() raises
          /\ UNCHANGED <<automation, browser, browserUsed>>
          /\ pc' = NextCall("setup_browser", FALSE)
       \/ \* webdriver.Chrome() raises
          /\ browserUsed' = TRUE
          /\ UNCHANGED <<automation, browser>>
          /\ pc' = NextCall("setup_browser", FALSE)
       \/ \* the driver is created, line 105 raises
          /\ automation' = <<[automation[1] EXCEPT !.driver = "Chrome"]>>
          /\ browser' = "open"
          /\ browserUsed' = TRUE
          /\ pc' = NextCall("setup_browser", FALSE)
       \/ /\ automation' = <<[driver |-> "Chrome", wait |-> "WebDriverWait"]>>
          /\ browser' = "open"
          /\ browserUsed' = TRUE
          /\ pc' = NextCall("setup_browser", TRUE)
    /\ UNCHANGED <<scriptVars, environ, quitCalls, usedAfterQuit, exc, cleanupRan,
                   quitRaised, verifyReturned, procVars, frame, rt, verify>>

\* lines 118-179: True after the login steps, False when one of them raised
login_to_trello ==
    /\ pc = "login_to_trello"
    /\ stages' = Append(stages, [name |-> "login_to_trello", arg |-> None])
    /\ Touch
    /\ \E result \in BOOLEAN : pc' = NextCall("login_to_trello", result)
    /\ UNCHANGED <<args, credentials, operation, loginLog, success, returned,
                   search, environ, automation, exc, cleanupRan, quitRaised,
                   verifyReturned, procVars, frame, rt, verify>>

\* lines 181-214: True after the three clicks, False when a step raised
navigate_to_workspace_settings ==
    /\ pc = "navigate_to_workspace_settings"
    /\ stages' = Append(stages, [name |-> "navigate_to_workspace_settings",
                                 arg |-> None])
    /\ Touch
    /\ \E result \in BOOLEAN :
          pc' = NextCall("navigate_to_workspace_settings", result)
    /\ UNCHANGED <<args, credentials, operation, loginLog, success, returned,
                   search, environ, automation, exc, cleanupRan, quitRaised,
                   verifyReturned, procVars, frame, rt, verify>>

\* line 231, 237, 244: retry_action(lambda: self.wait.until(...)) is called
StartRetryAction(css) ==
    /\ rt' = [NoRetry EXCEPT !.site = css]
    /\ pc' = "retry_action"

\* lines 216-231
standalone_add_new_user ==
    /\ pc = "standalone_add_new_user"
    /\ stages' = Append(stages, [name |-> "add_new_user", arg |-> None])
    /\ frame' = NoFrame
    /\ StartRetryAction(invite_button_css)
    /\ UNCHANGED <<scriptVars, environ, automation, browser, quitCalls,
                   browserUsed, usedAfterQuit, exc, cleanupRan, quitRaised,
                   verifyReturned, procVars, verify>>

\* lines 221-226, one pass of the loop: the action's value is returned; an
\* exception of a kind of line 224 is bound to e (kept here in
\* last_exception), logged and slept on; any other leaves retry_action as it is
retry_action_attempt ==
    /\ pc = "retry_action"
    /\ rt.attempt < max_attempts
    /\ Touch
    /\ \E outcome \in {Return(ElementOf(rt.site))} \cup {Raise(e) : e \in WaitErrors} :
          IF outcome.kind = "return"
          THEN /\ rt' = [rt EXCEPT !.calls = @ + 1, !.result = outcome.val]
               /\ pc' = "retry_action_returned"
          ELSE IF outcome.val \in TransientKinds
          THEN /\ rt' = [rt EXCEPT !.calls = @ + 1,
                                   !.last_exception = outcome.val,
                                   !.sleeps = Append(@, delay * Pow2(rt.attempt)),
                                   !.attempt = @ + 1]
               /\ pc' = "retry_action"
          ELSE /\ rt' = [rt EXCEPT !.calls = @ + 1, !.raised = outcome.val]
               /\ pc' = "retry_action_raised"
    /\ UNCHANGED <<args, credentials, operation, loginLog, success, returned,
                   search, environ, automation, stages, exc, cleanupRan,
                   quitRaised, verifyReturned, procVars, frame, verify>>

\* line 227: raise Exception(f"Failed after {max_attempts} attempts"), after
\* the loop and outside any handler: no exception is chained to it
retry_action_exhausted ==
    /\ pc = "retry_action"
    /\ rt.attempt >= max_attempts
    /\ rt' = [rt EXCEPT !.raised = "Exception", !.raised_from = None]
    /\ pc' = "retry_action_raised"
    /\ UNCHANGED <<scriptVars, environ, automation, browser, quitCalls,
                   browserUsed, usedAfterQuit, stages, exc, cleanupRan, quitRaised,
                   verifyReturned, procVars, frame, verify>>

\* lines 234, 240-241, 247-250: what add_new_user does with the element
\* retry_action returned; an exception of these calls reaches line 252
retry_action_returned ==
    /\ pc = "retry_action_returned"
    /\ Touch
    /\ \/ \* the call on the element raises: line 252, return False
          /\ pc' = NextCall("add_new_user", FALSE)
          /\ UNCHANGED <<frame, rt>>
       \/ CASE rt.site = invite_button_css ->
                 /\ frame' = [frame EXCEPT !.invite_button = rt.result]
                 /\ StartRetryAction(email_input_css)
            [] rt.site = email_input_css ->
                 /\ frame' = [frame EXCEPT !.email_input = rt.result,
                                           !.typed = new_user_email]
                 /\ StartRetryAction(submit_button_css)
            [] OTHER ->
                 /\ frame' = [frame EXCEPT !.submitted = <<"click", rt.result>>]
                 /\ pc' = NextCall("add_new_user", TRUE)
                 /\ UNCHANGED rt
    /\ UNCHANGED <<args, credentials, operation, loginLog, success, returned,
                   search, environ, automation, stages, exc, cleanupRan,
                   quitRaised, verifyReturned, procVars, verify>>

\* lines 252-254: the error of retry_action is logged, add_new_user returns
\* False
retry_action_raised ==
    /\ pc = "retry_action_raised"
    /\ pc' = NextCall("add_new_user", FALSE)
    /\ UNCHANGED <<scriptVars, environ, automation, browser, quitCalls,
                   browserUsed, usedAfterQuit, stages, exc, cleanupRan, quitRaised,
                   verifyReturned, procVars, frame, rt, verify>>

\* lines 256-260; its result is dropped by line 298
verify_user_addition ==
    /\ pc = "verify_user_addition"
    /\ stages' = Append(stages, [name |-> "verify_user_addition", arg |-> None])
    /\ verify' = NoVerify
    /\ pc' = "verify_poll"
    /\ UNCHANGED <<scriptVars, environ, automation, browser, quitCalls,
                   browserUsed, usedAfterQuit, exc, cleanupRan, quitRaised,
                   verifyReturned, procVars, frame, rt>>

\* lines 261-268 and 272-274, one pass of the loop: the member is present
\* within the wait (True), the wait times out (sleep, next pass), or the wait
\* raises something else (False)
verify_poll ==
    /\ pc = "verify_poll"
    /\ verify.idx < verify_polls
    /\ Touch
    /\ LET polled == [verify EXCEPT !.idx = @ + 1,
                                    !.queried = Append(@, member_xpath)]
       IN  \/ /\ verify' = [polled EXCEPT !.dom = {member_xpath}]
              /\ verifyReturned' = <<TRUE>>
              /\ pc' = "finally"
           \/ /\ verify' = [polled EXCEPT !.sleeps = Append(@, verify_delay)]
              /\ pc' = "verify_poll"
              /\ UNCHANGED verifyReturned
           \/ /\ verify' = [polled EXCEPT !.error = WebDriverException]
              /\ verifyReturned' = <<FALSE>>
              /\ pc' = "finally"
    /\ UNCHANGED <<args, credentials, operation, loginLog, success, returned,
                   search, environ, automation, stages, exc, cleanupRan,
                   quitRaised, procVars, frame, rt>>

\* lines 269-270: the passes are used up
verify_poll_exhausted ==
    /\ pc = "verify_poll"
    /\ verify.idx >= verify_polls
    /\ verifyReturned' = <<FALSE>>
    /\ pc' = "finally"
    /\ UNCHANGED <<scriptVars, environ, automation, browser, quitCalls,
                   browserUsed, usedAfterQuit, stages, exc, cleanupRan, quitRaised,
                   procVars, frame, rt, verify>>

\* lines 299-300 with 276-288: automation.cleanup().  With automation unbound
\* the lookup of the name raises NameError, which leaves the script in place
\* of the pending exception.  Otherwise quit() is called on a driver, its
\* error is logged, and driver and wait are set to None.
standalone_cleanup ==
    /\ pc = "finally"
    /\ IF automation = Unbound
       THEN /\ uncaught' = "NameError"
            /\ exitCode' = 1
            /\ UNCHANGED <<automation, browser, quitCalls, browserUsed,
                           usedAfterQuit, cleanupRan, quitRaised>>
       ELSE /\ cleanupRan' = cleanupRan + 1
            /\ automation' = <<[automation[1] EXCEPT !.driver = None,
                                                     !.wait = None]>>
            /\ IF ShouldQuit(automation[1].driver)
               THEN /\ quitCalls' = quitCalls + 1
                    /\ browser' = "quit"
                    /\ browserUsed' = TRUE
                    /\ quitRaised' \in BOOLEAN
                    /\ UNCHANGED usedAfterQuit
               ELSE UNCHANGED <<browser, quitCalls, browserUsed, usedAfterQuit,
                                quitRaised>>
            /\ uncaught' = exc
            /\ exitCode' = IF exc = None THEN 0 ELSE 1
    /\ pc' = "exited"
    /\ frame' = NoFrame
    /\ rt' = NoRetry
    /\ verify' = NoVerify
    /\ UNCHANGED <<scriptVars, environ, stages, exc, verifyReturned>>

NextStandalone ==
    \/ part_000
    \/ TrelloUserProvisioning
    \/ setup_browser
    \/ login_to_trello
    \/ navigate_to_workspace_settings
    \/ standalone_add_new_user
    \/ retry_action_attempt
    \/ retry_action_exhausted
    \/ retry_action_returned
    \/ retry_action_raised
    \/ verify_user_addition
    \/ verify_poll
    \/ verify_poll_exhausted
    \/ standalone_cleanup

StandaloneSpec == InitStandalone /\ [][NextStandalone]_vars

----------------------------------------------------------------------------
(* Properties *)

Last(seq) == seq[Len(seq)]

\* run_provisioning is over: it returned, or the process ended after it began
RunOver == pc \in {"sys_exit"} \/ (pc = "exited" /\ stages # << >>)

\* C1: on every exit path of run_provisioning cleanup() has run once, after
\* the last stage action; driver.quit() was called once if a driver was
\* created and not at all otherwise; nothing uses the browser after quit.
C1_CleanupOnEveryExit ==
    /\ cleanupRan <= 1
    /\ quitCalls <= cleanupRan
    /\ cleanupRan = 1 => pc \in {"return", "sys_exit", "exited"}
    /\ (pc = "return" \/ RunOver) =>
          /\ cleanupRan = 1
          /\ quitCalls = IF browser = "absent" THEN 0 ELSE 1
    /\ ~usedAfterQuit

\* C1 happens: a run that ended on the challenge, its browser quit once
C1_Witness ==
    /\ pc = "exited"
    /\ exc = CaptchaDetectedException
    /\ cleanupRan = 1
    /\ quitCalls = 1

\* __init__ is over
Constructed == pc \notin {"main", "construct"} /\ ~(pc = "exited" /\ exitCode \in {0, 2}
                                                     /\ stages = << >>)

\* C2: with TRELLO_USERNAME or TRELLO_PASSWORD unset or empty when line
\* 110-111 reads them, the constructor raises TrelloProvisioningError and no
\* browser call was made; with both set it keeps them as the credentials.
C2_MissingCredentialsFailBeforeBrowser ==
    Constructed =>
        IF Falsy(environ.TRELLO_USERNAME) \/ Falsy(environ.TRELLO_PASSWORD)
        THEN /\ pc = "exited"
             /\ uncaught = TrelloProvisioningError
             /\ ~browserUsed
             /\ browser = "absent"
             /\ stages = << >>
             /\ credentials = NoCredentials
        ELSE /\ credentials = [username |-> environ.TRELLO_USERNAME,
                               password |-> environ.TRELLO_PASSWORD]
             /\ ~(uncaught = TrelloProvisioningError /\ stages = << >>)

\* C2 happens: only the password is set, the constructor has raised
C2_Witness ==
    /\ pc = "exited"
    /\ uncaught = TrelloProvisioningError
    /\ Falsy(environ.TRELLO_USERNAME)
    /\ ~Falsy(environ.TRELLO_PASSWORD)

\* C3: a challenge detected in headless mode is the last thing login() does:
\* CaptchaDetectedException reaches run_provisioning as itself, no login step
\* follows the detecting check, and run_provisioning returns False.
C3_CaptchaHeadlessAbortsLogin ==
    \A i \in DOMAIN loginLog :
        (loginLog[i] = "captcha_detected" /\ args.headless) =>
            /\ i = Len(loginLog)
            /\ exc = CaptchaDetectedException
            /\ Len(stages) = 2
            /\ pc \in {"cleanup", "return", "sys_exit", "exited"}
            /\ returned \in {<< >>, <<FALSE>>}
            /\ pc \in {"sys_exit", "exited"} => returned = <<FALSE>>

\* C3 happens: the challenge appeared at the second check, after the password
C3_Witness ==
    /\ args.headless
    /\ Len(loginLog) >= 2
    /\ Last(loginLog) = "captcha_detected"
    /\ \E i \in DOMAIN loginLog : loginLog[i] = "password"
    /\ returned = <<FALSE>>

\* The stage calls of a full run, with the arguments main() was given
ExpectedStages ==
    << [name |-> "_setup_driver", arg |-> None],
       [name |-> "login", arg |-> None],
       [name |-> "navigate_to_workspace", arg |-> args.workspace],
       [name |-> "add_new_user", arg |-> args.email],
       [name |-> "verify_user_added", arg |-> args.email] >>

\* Where the thread stands when the next stage is called
NextStageAfter(called) ==
    IF called = << >> THEN "_setup_driver" ELSE ExpectedStages[Len(called) + 1].name

StagesInOrder ==
    /\ Len(stages) <= Len(ExpectedStages)
    /\ \A i \in DOMAIN stages : stages[i] = ExpectedStages[i]

\* C4: the stages are called in the fixed order, each at most once, with the
\* caller's workspace and email, and a stage is called only while no earlier
\* stage has raised.
C4_StagesInFixedOrder ==
    /\ []StagesInOrder
    /\ [][stages' # stages =>
            /\ exc = None
            /\ cleanupRan = 0
            /\ pc = NextStageAfter(stages)
            /\ Len(stages') = Len(stages) + 1]_vars

\* C4 happens: a full run for a workspace and an email that are not the defaults
C4_Witness ==
    /\ Len(stages) = 5
    /\ args.workspace # DefaultWorkspace
    /\ args.email # DefaultEmail
    /\ pc = "exited"

\* C5: once run_provisioning has begun no exception leaves it: it returns,
\* after cleanup() ran, and returns False whenever a stage raised, also when
\* driver.quit() raised.
C5_NoExceptionEscapes ==
    /\ stages # << >> => uncaught = None
    /\ RunOver => (cleanupRan = 1 /\ Len(returned) = 1)
    /\ (returned # << >> /\ exc # None) => returned = <<FALSE>>
    /\ (returned # << >> /\ quitRaised) => returned = <<success>>

\* C5 happens: a stage raised, quit raised too, the run returned False
C5_Witness ==
    /\ pc = "exited"
    /\ exc = TrelloProvisioningError
    /\ quitRaised
    /\ returned = <<FALSE>>
    /\ exitCode = 1

\* All five stages ran without error and the verifier returned True
VerifiedSuccess ==
    /\ Len(stages) = 5
    /\ exc = None
    /\ verifyReturned = <<TRUE>>

\* C6 as stated: the exit code is 0 exactly when run_provisioning returned
\* True, which it does exactly on verified success, and is 1 otherwise.
C6_ExitCodeAsStated ==
    pc = "exited" =>
        /\ exitCode = 0 <=> returned = <<TRUE>>
        /\ returned = <<TRUE>> <=> VerifiedSuccess
        /\ exitCode \in {0, 1}

\* The command line was accepted: main() went on to the constructor
ArgsParsed == ~(pc = "exited" /\ stages = << >> /\ uncaught = None)

\* C6 amended: when the command line parses (no --help, no usage error) the
\* exit code is 0 exactly when run_provisioning returned True, which it does
\* exactly on verified success, and is 1 otherwise.
C6_ExitCodeWhenArgsParse ==
    (pc = "exited" /\ ArgsParsed) =>
        /\ exitCode = 0 <=> returned = <<TRUE>>
        /\ returned = <<TRUE>> <=> VerifiedSuccess
        /\ exitCode \in {0, 1}

\* C6 happens: a verification miss exits 1, and so does a verified success 0
C6_Witness ==
    /\ pc = "exited"
    /\ Len(stages) = 5
    /\ verifyReturned = <<FALSE>>
    /\ exitCode = 1

\* C7: verify_user_added never raises: once called, no exception reaches
\* run_provisioning, it returns a boolean, False when a lookup error reached
\* its handler and True only when a queried selector matched.
C7_VerifyNeverRaises ==
    Len(stages) = 5 =>
        /\ exc = None
        /\ pc # "verify_user" => verifyReturned \in {<<TRUE>>, <<FALSE>>}
        /\ verify.error # None => verifyReturned = <<FALSE>>
        /\ (verifyReturned = <<TRUE>> /\ pc \in {"after_verify", "cleanup"}) =>
               Last(verify.queried) \in verify.dom

\* C7 happens: a lookup raised in the verifier, which returned False
C7_Witness ==
    /\ pc = "after_verify"
    /\ verify.error = WebDriverException
    /\ verifyReturned = <<FALSE>>

\* The first selector of the list that matches on the page
FirstMatch(selectors, dom) ==
    selectors[CHOOSE i \in DOMAIN selectors :
                 /\ selectors[i] \in dom
                 /\ \A j \in 1..(i - 1) : selectors[j] \notin dom]

\* C8: a search queries the selectors in list order, acts on the match of the
\* first selector that matches, and queries no selector after that one.
C8_FirstMatchWins ==
    search.name # None =>
        LET selectors == SelectorsOf(search.name)
            n == Len(search.queried)
        IN  /\ n <= Len(selectors)
            /\ search.queried = SubSeq(selectors, 1, n)
            /\ \A i \in 1..(n - 1) : search.queried[i] \notin search.dom
            /\ search.acted # None =>
                  /\ search.acted = ElementOf(FirstMatch(selectors, search.dom))
                  /\ search.queried[n] = FirstMatch(selectors, search.dom)

\* C8 happens: only the third submit selector matches; it was clicked after
\* three queries
C8_Witness ==
    /\ pc = "submit_clicked"
    /\ search.name = "submit"
    /\ search.dom = {submit_selectors[3]}
    /\ search.acted = ElementOf(submit_selectors[3])
    /\ Len(search.queried) = 3

\* The operation fails on its first k invocations and then succeeds
FailsThenSucceeds(k) ==
    /\ \A i \in 1..k : operation[i].kind = "raise"
    /\ operation[k + 1].kind = "return"

\* C9: an operation that fails k < max_retries times and then succeeds is
\* invoked k + 1 times, its value is returned, and the sleeps are
\* retry_delay_base * 2^0 .. 2^(k-1), strictly increasing.
C9_SucceedsAfterKFailures ==
    \A k \in 0..(max_retries - 1) :
        FailsThenSucceeds(k) =>
            /\ rt.calls <= k + 1
            /\ pc # "_retry_raised"
            /\ pc = "_retry_returned" =>
                  /\ rt.calls = k + 1
                  /\ rt.result = operation[k + 1].val
                  /\ rt.sleeps = [i \in 1..k |-> retry_delay_base * Pow2(i - 1)]
                  /\ \A i \in 1..(k - 1) : rt.sleeps[i] < rt.sleeps[i + 1]

\* C9 happens: two failures, then the third invocation's value after 1s and 2s
C9_Witness ==
    /\ pc = "_retry_returned"
    /\ FailsThenSucceeds(2)
    /\ rt.calls = 3
    /\ rt.sleeps = <<1, 2>>
    /\ rt.result = operation[3].val

\* C10 as stated: an exception outside the transient kinds ends the helper at
\* the invocation that raised it, unslept, and reaches the caller as itself.
C10_OnlyTransientRetried ==
    \A i \in 1..rt.calls :
        (operation[i].kind = "raise" /\ operation[i].val \notin TransientKinds) =>
            /\ rt.calls = i
            /\ Len(rt.sleeps) = i - 1
            /\ rt.raised = operation[i].val

\* C10 amended: every exception of the operation, whatever its kind, is
\* followed by a sleep and, below max_retries invocations, by another
\* invocation; none reaches the caller as itself: after max_retries failures
\* TrelloProvisioningError is raised.
C10_EveryExceptionRetried ==
    /\ rt.raised \in {None, TrelloProvisioningError}
    /\ rt.calls <= max_retries
    /\ pc = "_retry_operation" =>
          /\ \A i \in 1..rt.calls : operation[i].kind = "raise"
          /\ rt.attempt = rt.calls
          /\ Len(rt.sleeps) = rt.calls
    /\ pc = "_retry_returned" =>
          /\ \A i \in 1..(rt.calls - 1) : operation[i].kind = "raise"
          /\ operation[rt.calls].kind = "return"
          /\ Len(rt.sleeps) = rt.calls - 1
    /\ pc = "_retry_raised" =>
          /\ \A i \in 1..max_retries : operation[i].kind = "raise"
          /\ rt.calls = max_retries
          /\ rt.raised = TrelloProvisioningError

\* C10 happens: a ValueError, not a transient kind, was slept on and retried
C10_Witness ==
    /\ pc = "_retry_returned"
    /\ operation[1] = Raise("ValueError")
    /\ rt.calls = 2
    /\ rt.sleeps = <<1>>

\* C11 (retry_action of the standalone script): when the helper raises its
\* wrapped error, every one of max_attempts invocations has failed, no value
\* was returned, and the exception of the last invocation is chained to the
\* error raised.
C11_WrappedErrorKeepsLastFailure ==
    (pc = "retry_action_raised" /\ rt.raised = "Exception") =>
        /\ rt.calls = max_attempts
        /\ rt.result = None
        /\ rt.last_exception # None
        /\ rt.raised_from = rt.last_exception

\* The list was walked to its end and no selector matched
ListExhausted(s) ==
    /\ s.queried = SelectorsOf(s.name)
    /\ \A i \in DOMAIN s.queried : s.queried[i] \notin s.dom
    /\ s.acted = None

C13_SearchesInSequence ==
    Len(stages) = 4 =>
        /\ search.name \in {"email", "submit"} => frame.invite_button # None
        /\ search.name = "submit" =>
              (frame.email_input # None /\ frame.typed = args.email)
        /\ frame.typed # None => frame.invite_button # None
        /\ frame.submitted # << >> => frame.typed = args.email
        /\ (search.name \in {"invite", "email"} /\ ListExhausted(search)) =>
              /\ pc \in {search.name \o "_search", "cleanup"}
              /\ pc = "cleanup" => exc = TrelloProvisioningError
              /\ frame.typed = None
              /\ frame.submitted = << >>
              /\ search.name = "invite" => frame.invite_button = None

\* C13 happens: the trigger was clicked, no email selector matched, the call
\* ended with the error and nothing typed
C13_Witness ==
    /\ pc = "cleanup"
    /\ Len(stages) = 4
    /\ search.name = "email"
    /\ ListExhausted(search)
    /\ frame.invite_button # None
    /\ frame.typed = None
    /\ exc = TrelloProvisioningError

IsPrefix(s, t) == Len(s) <= Len(t) /\ s = SubSeq(t, 1, Len(s))

NotInput(step) == step # "input"

\* The steps login() has made on the page, a challenge check counted as
\* "check" whatever it found, the operator's confirmation left out
LoginStepsMade ==
    LET made == SelectSeq(loginLog, NotInput)
    IN  [i \in 1..Len(made) |->
            IF made[i] \in {"captcha_detected", "captcha_clear"} THEN "check"
            ELSE made[i]]

\* C15: login() makes its steps in the order get, check, username, continue
\* (when the button is present), check, password, submit, wait: the second
\* challenge check comes before the password is typed.
C15_LoginOrderAsStated ==
    \E continue_present \in BOOLEAN :
        IsPrefix(LoginStepsMade,
                 <<"get", "check", "username">>
                 \o (IF continue_present THEN <<"continue">> ELSE << >>)
                 \o <<"check", "password", "submit", "wait">>)

\* C16: after a timed-out wait for the success signal login() raises
\* TrelloProvisioningError when the URL read still contains "login", and the
\* run ends with run_provisioning returning False, nothing uncaught; when the
\* URL read does not contain it, login() returns and navigate_to_workspace is
\* called next.
C16_LoginTimeoutOutcome ==
    loginLog # << >> =>
        /\ Last(loginLog) = "url_login" =>
              /\ exc = TrelloProvisioningError
              /\ Len(stages) = 2
              /\ pc \in {"cleanup", "return", "sys_exit", "exited"}
              /\ uncaught = None
              /\ returned \in {<< >>, <<FALSE>>}
              /\ pc \in {"sys_exit", "exited"} => returned = <<FALSE>>
        /\ Last(loginLog) = "url_other" =>
              /\ exc = None
              /\ Len(stages) = 2
              /\ pc = "navigate_to_workspace"

\* C16 happens: the wait timed out on the login page, the run returned False
C16_Witness ==
    /\ loginLog # << >>
    /\ Last(loginLog) = "url_login"
    /\ pc = "exited"
    /\ returned = <<FALSE>>
    /\ exitCode = 1

\* C17: with headless false a detected challenge never raises
\* CaptchaDetectedException: the check is followed by input(), during which
\* login() stands still, and, once input() returned, by the login step that
\* follows the check (the username after the first, the submit click after
\* the second), never by another detection.
C17_InteractiveChallengeWaits ==
    ~args.headless =>
        /\ exc # CaptchaDetectedException
        /\ \A i \in DOMAIN loginLog :
              /\ loginLog[i] = "captcha_detected" =>
                    /\ i = Len(loginLog) =>
                          (pc \in {"captcha_input1", "captcha_input2"} /\ exc = None)
                    /\ i < Len(loginLog) => loginLog[i + 1] = "input"
                    /\ i + 1 < Len(loginLog) =>
                          loginLog[i + 2] = (IF i = 2 THEN "username" ELSE "submit")
              /\ loginLog[i] = "input" => (i > 1 /\ loginLog[i - 1] = "captcha_detected")
        /\ (loginLog # << >> /\ Last(loginLog) = "input" /\ exc = None) =>
              pc = (IF Len(loginLog) = 3 THEN "login_username" ELSE "login_submit")
        /\ Cardinality({i \in DOMAIN loginLog :
                           loginLog[i] \in {"captcha_detected", "captcha_clear"}}) <= 2

\* C17 happens: a challenge at the first check, the operator confirmed, the
\* username was typed next
C17_Witness ==
    /\ ~args.headless
    /\ loginLog = <<"get", "captcha_detected", "input", "username">>
    /\ exc = None

\* The number of times verify_user_added has begun its selector lists
VerifyPasses ==
    Cardinality({i \in DOMAIN verify.queried :
                    verify.queried[i] = user_verification_selectors(args.email)[1]})

\* C18: the verifier polls: it reports no evidence (False, no lookup having
\* raised) only after it has checked again, with a delay before each further
\* check.
C18_VerifierPolls ==
    (pc = "after_verify" /\ verifyReturned = <<FALSE>> /\ verify.error = None) =>
        /\ VerifyPasses > 1
        /\ Len(verify.sleeps) = VerifyPasses - 1

\* C19: _retry_operation sleeps only between two invocations: when it is over
\* after n invocations it has slept n - 1 times, so that three failures are
\* slept on for retry_delay_base * (1 + 2) and no longer.
C19_SleepsOnlyBetweenAttempts ==
    pc \in {"_retry_returned", "_retry_raised"} =>
        /\ Len(rt.sleeps) = rt.calls - 1
        /\ rt.sleeps = [i \in 1..(rt.calls - 1) |-> retry_delay_base * Pow2(i - 1)]

\* C20 as stated: verify_user_added returns True exactly when one of its
\* selectors matches an element of the page at the time of the call.
C20_TrueIffSomeSelectorMatches ==
    pc = "after_verify" => (verifyReturned = <<TRUE>> <=> verify.dom # {})

\* C20 amended: verify_user_added returns True only on a selector that
\* matches, returns False when no selector matches, and returns True whenever
\* one matches and no lookup or text read raised.
C20_TrueIffMatchSeen ==
    pc = "after_verify" =>
        /\ verifyReturned = <<TRUE>> =>
              (verify.queried # << >> /\ Last(verify.queried) \in verify.dom)
        /\ verify.dom = {} => verifyReturned = <<FALSE>>
        /\ (verifyReturned = <<FALSE>> /\ verify.error = None /\ ~verify.skipped) =>
              /\ verify.dom = {}
              /\ verify.queried = user_verification_selectors(args.email)
                                  \o success_selectors

\* C20 happens: all eight lookups returned an empty list, the result is False
C20_Witness ==
    /\ pc = "after_verify"
    /\ verifyReturned = <<FALSE>>
    /\ verify.error = None
    /\ ~verify.skipped
    /\ Len(verify.queried) = 8

\* The workspace selector whose element was clicked has been tried and given
\* up on: the search is in its first pass, an element was found, it was not
\* clicked successfully and no click of it is under way
FirstPassClickFailed ==
    /\ search.name = "workspace"
    /\ search.pass = 1
    /\ search.acted # None
    /\ ~search.found
    /\ pc \notin {"_retry_operation", "_retry_returned", "_retry_raised",
                 "workspace_clicked"}

\* C21: once a click on an element matched in the first pass of
\* navigate_to_workspace has failed for good, the call is over with
\* TrelloProvisioningError: the selector of that element is the last one
\* queried, each selector before it matched nothing, the listing URL was not
\* loaded, and the click was invoked max_retries times before.
C21_FirstPassClickFailureRaises ==
    /\ FirstPassClickFailed =>
          /\ pc = "cleanup"
          /\ exc = TrelloProvisioningError
          /\ Len(stages) = 3
          /\ search.gets = 0
          /\ Last(search.queried) = search.acted
          /\ search.queried = SubSeq(workspace_selectors(args.workspace), 1,
                                     Len(search.queried))
          /\ \A i \in 1..(Len(search.queried) - 1) :
                search.queried[i] \notin search.dom
    /\ (pc = "_retry_raised" /\ rt.site = "workspace" /\ search.pass = 1) =>
          /\ rt.raised = TrelloProvisioningError
          /\ rt.calls = max_retries

\* C21 happens: the first selector matched nothing, the second matched, its
\* click failed, three selectors are left unqueried and the page held a
\* further match among them
C21_Witness ==
    /\ FirstPassClickFailed
    /\ Len(search.queried) = 2
    /\ workspace_selectors(args.workspace)[4] \in search.dom

\* C22: the element add_new_user clicks as the submit control is never the
\* element it clicked as the invite trigger earlier in the same call.  The
\* pages considered are those on which the trigger is still the first node
\* its XPath matches when the submit search runs.
C22_SubmitNeverReclicksTrigger ==
    (frame.submitted # << >> /\ frame.submitted[1] = "click") =>
        frame.submitted[2] # frame.invite_button

\* A search walks its list once, in order: what it has queried is the
\* beginning of the list
WalkedOnce(s) ==
    /\ s.idx = Len(s.queried)
    /\ s.idx <= Len(SelectorsOf(s.name))
    /\ s.queried = SubSeq(SelectorsOf(s.name), 1, s.idx)

\* C23: a call of run_provisioning with headless true comes to its end; on
\* the way every _retry_operation invokes its operation at most max_retries
\* times, every search walks its list at most once (the workspace search at
\* most twice, with one load of the listing URL between), the verifier walks
\* its two lists at most once, and no stage is entered twice.
C23_HeadlessRunTerminates ==
    /\ (pc = "run_provisioning" /\ args.headless) ~> (returned # << >>)
    /\ [](rt.calls <= max_retries /\ rt.attempt <= max_retries)
    /\ [](/\ WalkedOnce(search)
          /\ search.pass <= (IF search.name = "workspace" THEN 2 ELSE 1)
          /\ search.gets <= 1
          /\ search.gets = 1 <=> search.pass = 2)
    /\ [](verify.queried = SubSeq(user_verification_selectors(args.email)
                                  \o success_selectors, 1, Len(verify.queried)))
    /\ [](\A i, j \in DOMAIN stages : stages[i].name = stages[j].name => i = j)

\* C23 happens: a headless call went through its five stages and returned
C23_Witness ==
    /\ args.headless
    /\ Len(stages) = 5
    /\ returned # << >>

\* C24: in the standalone script every way out of the main block has gone
\* through cleanup(), also when the constructor raised for a missing
\* credential, and the cleanup step raised nothing new: the process ends
\* with no error or with the constructor's ValueError; after cleanup()
\* driver and wait are None, whether or not driver.quit() raised, and quit
\* was called at most once.
C24_StandaloneCleanupOnEveryExit ==
    (pc = "exited" /\ uncaught # "FileNotFoundError") =>
        /\ cleanupRan = 1
        /\ uncaught \in {None, "ValueError"}
        /\ quitCalls <= 1
        /\ automation # Unbound =>
              (automation[1].driver = None /\ automation[1].wait = None)

====
